---- MODULE Spec2Model ----
(***************************************************************************)
(* Model of the EarthChem import plugin (src/plugins/__init__.py):         *)
(* import_earthchem reads chunks, combine_repeated_columns cleans the      *)
(* header of each chunk, import_sample turns each row into a sample        *)
(* document and hands it to load_data.                                     *)
(*                                                                         *)
(* Text is modelled by TLA+ strings (Len, \o and SubSeq act on them).      *)
(* A cell is a record [t, n, s]: t = "null" (NaN / None), t = "num" (the   *)
(* number n * 10^-6), t = "str" (the text s).                              *)
(***************************************************************************)
EXTENDS Integers, Sequences, FiniteSets, TLC

VARIABLES files, chunks, raw, df, i, pc, db, outcomes

vars == <<files, chunks, raw, df, i, pc, db, outcomes>>

(***************************************************************************)
(* Bounds of the model.                                                    *)
(***************************************************************************)
MaxRows == 2
MaxCols == 3
MaxSuffix == 2
MaxRefLen == 7
MaxPrec == 2

(***************************************************************************)
(* Cells and text.                                                         *)
(***************************************************************************)
Null == [t |-> "null", n |-> 0, s |-> ""]
Num(n) == [t |-> "num", n |-> n, s |-> ""]
Str(s) == [t |-> "str", n |-> 0, s |-> s]

\* pandas.isnull(val) / "x is None"
IsNull(c) == c.t = "null"

Char(s, k) == SubSeq(s, k, k)

Digits == {"0", "1", "2", "3", "4", "5", "6", "7", "8", "9"}

Whitespace == {" ", "\n", "\t"}

IsDigit(c) == c \in Digits

\* str.endswith
EndsWith(s, suf) ==
  /\ Len(s) >= Len(suf)
  /\ SubSeq(s, Len(s) - Len(suf) + 1, Len(s)) = suf

\* "c in s" for a one-character c
Contains(s, c) == \E k \in 1..Len(s) : Char(s, k) = c

RECURSIVE LStrip(_)
LStrip(s) ==
  IF Len(s) > 0 /\ Char(s, 1) \in Whitespace
    THEN LStrip(SubSeq(s, 2, Len(s)))
    ELSE s

RECURSIVE RStrip(_)
RStrip(s) ==
  IF Len(s) > 0 /\ Char(s, Len(s)) \in Whitespace
    THEN RStrip(SubSeq(s, 1, Len(s) - 1))
    ELSE s

\* str.strip()
Strip(s) == LStrip(RStrip(s))

\* The position a regular expression's "$" anchors to: the end of the text,
\* or just before a final line break.
DollarEnd(s) ==
  IF Len(s) > 0 /\ Char(s, Len(s)) = "\n" THEN Len(s) - 1 ELSE Len(s)

\* The start of the longest run of digits that ends at position e (e + 1 when
\* there is none).
RECURSIVE DigitRunStart(_, _)
DigitRunStart(s, e) ==
  IF e >= 1 /\ IsDigit(Char(s, e)) THEN DigitRunStart(s, e - 1) ELSE e + 1

\* re.sub(r"\.\d+$", "", s)
StripSuffix(s) ==
  LET cut(b, e) ==
        IF b <= e /\ b >= 2 /\ Char(s, b - 1) = "."
          THEN SubSeq(s, 1, b - 2) \o SubSeq(s, e + 1, Len(s))
          ELSE s
  IN  cut(DigitRunStart(s, DollarEnd(s)), DollarEnd(s))

\* cleaned_column_name = re.sub(r"\.\d+$", "", column_name).strip()
CleanName(s) == Strip(StripSuffix(s))

(***************************************************************************)
(* Frames: [columns |-> sequence of names, rows |-> sequence of rows], a   *)
(* row being a sequence of cells, one per column.                          *)
(***************************************************************************)
Names(f) == {f.columns[k] : k \in 1..Len(f.columns)}

RECURSIVE KeepIdx(_, _, _)
KeepIdx(seq, keep, k) ==
  IF k > Len(seq) THEN <<>>
  ELSE IF k \in keep THEN <<seq[k]>> \o KeepIdx(seq, keep, k + 1)
  ELSE KeepIdx(seq, keep, k + 1)

\* df.rename(columns={old: new}, inplace=True)
Rename(f, old, new) ==
  [f EXCEPT !.columns =
     [k \in 1..Len(f.columns) |->
        IF f.columns[k] = old THEN new ELSE f.columns[k]]]

\* df.drop(columns=[name], inplace=True)
Drop(f, name) ==
  LET keep == {k \in 1..Len(f.columns) : f.columns[k] # name}
  IN  [columns |-> KeepIdx(f.columns, keep, 1),
       rows |-> [r \in 1..Len(f.rows) |-> KeepIdx(f.rows[r], keep, 1)]]

\* One pass of the loop body of combine_repeated_columns.  The value of
\* combine_first is not assigned to anything: the frame keeps its cells.
CombineStep(f, column_name) ==
  LET step(cleaned) ==
        IF cleaned = column_name THEN f
        ELSE IF cleaned \notin Names(f) THEN Rename(f, column_name, cleaned)
        ELSE Drop(f, column_name)
  IN  step(CleanName(column_name))

RECURSIVE CombineFrom(_, _, _)
CombineFrom(f, original, k) ==
  IF k > Len(original) THEN f
  ELSE CombineFrom(CombineStep(f, original[k]), original, k + 1)

\* combine_repeated_columns(df): the loop runs over the header as it was
\* when the loop started.
combine_repeated_columns(f) == CombineFrom(f, f.columns, 1)

(***************************************************************************)
(* Numbers.  A numeric cell n stands for the decimal n * 10^-6, and the    *)
(* float the program holds is the IEEE double nearest to it.  That double  *)
(* is n/10^6 + RepErr(n) / (10^6 * 2^RepExp(n)): with 2^52 <= m < 2^53 the *)
(* mantissa and k = RepExp(n), m = round(n * 2^k / 10^6), so the error is  *)
(* decided by n * 2^k modulo 10^6.                                         *)
(***************************************************************************)
Micro == 1000000

Abs(n) == IF n < 0 THEN -n ELSE n

Sign(n) == IF n < 0 THEN -1 ELSE IF n > 0 THEN 1 ELSE 0

RECURSIVE Pow2(_)
Pow2(k) == IF k = 0 THEN 1 ELSE 2 * Pow2(k - 1)

\* floor(log2(n / 10^6)) for n > 0
RECURSIVE ExpUp(_, _)
ExpUp(n, e) == IF Micro * Pow2(e + 1) <= n THEN ExpUp(n, e + 1) ELSE e

RECURSIVE ExpDown(_, _)
ExpDown(n, j) == IF n * Pow2(j) < Micro THEN ExpDown(n, j + 1) ELSE -j

BinExp(n) == IF n >= Micro THEN ExpUp(n, 0) ELSE ExpDown(n, 1)

\* The double has 53 significant bits.
MantissaBits == 53

RepExp(n) == (MantissaBits - 1) - BinExp(Abs(n))

RECURSIVE DoubleMod(_, _)
DoubleMod(q, k) == IF k = 0 THEN q ELSE DoubleMod((2 * q) % Micro, k - 1)

RepErr(n) ==
  LET err(q) == IF 2 * q < Micro THEN -q ELSE Micro - q
  IN  IF n = 0 THEN 0
      ELSE Sign(n) * err(DoubleMod(Abs(n) % Micro, RepExp(n)))

\* RepErr(n) brought to the common denominator 10^6 * 2^K
ErrAt(n, K) == IF n = 0 THEN 0 ELSE RepErr(n) * Pow2(K - RepExp(n))

Max2(a, b) == IF a >= b THEN a ELSE b

Max3(a, b, c) == Max2(Max2(a, b), c)

CommonExp(a, b, c) ==
  Max3(IF a = 0 THEN 0 ELSE RepExp(a),
       IF b = 0 THEN 0 ELSE RepExp(b),
       IF c = 0 THEN 0 ELSE RepExp(c))

\* round(x, 5) of the double of n: correctly rounded on the double's exact
\* value, so a decimal tie goes the way the double's error points, and
\* half to even when the double is exact.
Round5(n) ==
  LET up(h, u, e) ==
        IF u # 5 THEN u > 5
        ELSE IF e # 0 THEN e > 0
        ELSE h % 2 = 1
      pick(h, goesUp) == IF goesUp THEN h + 1 ELSE h
  IN  Sign(n) * 10
        * pick(Abs(n) \div 10, up(Abs(n) \div 10, Abs(n) % 10, RepErr(Abs(n))))

(***************************************************************************)
(* import_sample: the resolver loop.                                       *)
(***************************************************************************)
\* Value(value, parameter, unit, method): error and error_metric unset
Value(value, parameter, unit, method) ==
  [t |-> "Value", value |-> value, parameter |-> parameter, unit |-> unit,
   method |-> method, error |-> Null, error_metric |-> Null]

\* isinstance(v, Value)
IsValue(v) == v.t = "Value"

\* "name in row.index"
InIndex(cols, name) == \E k \in 1..Len(cols) : cols[k] = name

\* row.loc[name]
Loc(cols, cells, name) ==
  cells[CHOOSE k \in 1..Len(cols) : cols[k] = name]

\* str(x) of a unit (None once a null cell is replaced) or a method cell (a
\* null cell is NaN); the cells of UNIT and METH columns are text or null.
StrOfUnit(c) == IF IsNull(c) THEN "None" ELSE c.s

StrOfMethod(c) == IF IsNull(c) THEN "nan" ELSE c.s

AllDigits(s) == Len(s) > 0 /\ \A k \in 1..Len(s) : IsDigit(Char(s, k))

DigitVal(c) ==
  CASE c = "0" -> 0 [] c = "1" -> 1 [] c = "2" -> 2 [] c = "3" -> 3
    [] c = "4" -> 4 [] c = "5" -> 5 [] c = "6" -> 6 [] c = "7" -> 7
    [] c = "8" -> 8 [] c = "9" -> 9

\* int(s) of a run of digits
RECURSIVE IntOf(_)
IntOf(s) ==
  IF Len(s) = 0 THEN 0
  ELSE 10 * IntOf(SubSeq(s, 1, Len(s) - 1)) + DigitVal(Char(s, Len(s)))

\* float(val): [ok, n].  A number converts to itself; a text converts when,
\* stripped, it is an optional sign and digits (the numeric texts of the
\* model are whole numbers); any other text raises ValueError.
Float(c) ==
  LET signed(b) == Len(b) > 0 /\ Char(b, 1) \in {"-", "+"}
      sign(b) == IF Len(b) > 0 /\ Char(b, 1) = "-" THEN -1 ELSE 1
      parse(sgn, body) ==
        IF AllDigits(body)
          THEN [ok |-> TRUE, n |-> sgn * IntOf(body) * Micro]
          ELSE [ok |-> FALSE, n |-> 0]
      text(b) ==
        parse(sign(b), IF signed(b) THEN SubSeq(b, 2, Len(b)) ELSE b)
  IN  IF c.t = "num" THEN [ok |-> TRUE, n |-> c.n] ELSE text(Strip(c.s))

\* data.get(key): None when the key is absent
RECURSIVE DataGet(_, _)
DataGet(data, key) ==
  IF data = <<>> THEN Null
  ELSE IF Head(data).key = key THEN Head(data).val
  ELSE DataGet(Tail(data), key)

HasKey(data, key) == \E k \in 1..Len(data) : data[k].key = key

\* data[key] = val: a dict keeps the place of a key it already holds
DataSet(data, key, val) ==
  IF HasKey(data, key)
    THEN [k \in 1..Len(data) |->
            IF data[k].key = key THEN [key |-> key, val |-> val] ELSE data[k]]
    ELSE Append(data, [key |-> key, val |-> val])

\* ResolveUnit when the test for a composited name is left out
ResolveUnitAnyName(col_id, unitCell) ==
  IF IsNull(unitCell) THEN "ratio" ELSE StrOfUnit(unitCell)

\* The unit of a column with UNIT and METH companions (lines 43-48)
ResolveUnit(col_id, unitCell) ==
  IF IsNull(unitCell) /\ Contains(col_id, "_") THEN "ratio"
  ELSE StrOfUnit(unitCell)

\* AgeValue when the test of line 53 is v1 <= 0
AgeValueZeroInYears(col_id, v1) ==
  IF v1 <= 0
    THEN Value(Num(v1 * (-1)), col_id, "year", "UNKNOWN")
    ELSE Value(Num(v1), col_id, "Ma", "UNKNOWN")

\* The Value of an age column without companions (lines 52-57), v1 the float
AgeValue(col_id, v1) ==
  IF v1 < 0
    THEN Value(Num(v1 * (-1)), col_id, "year", "UNKNOWN")
    ELSE Value(Num(v1), col_id, "Ma", "UNKNOWN")

\* What the body of the loop of lines 36-59 makes of column col_id and its
\* cell val: [skip, exc, val]
ResolveColumn(cols, cells, col_id, val) ==
  LET age(v1) ==
        IF v1.ok
          THEN [skip |-> FALSE, exc |-> "", val |-> AgeValue(col_id, v1.n)]
          ELSE [skip |-> FALSE, exc |-> "ValueError", val |-> val]
  IN  IF IsNull(val) \/ EndsWith(col_id, " UNIT") \/ EndsWith(col_id, " METH")
        THEN [skip |-> TRUE, exc |-> "", val |-> val]
      ELSE IF InIndex(cols, col_id \o " UNIT") /\ InIndex(cols, col_id \o " METH")
        THEN [skip |-> FALSE, exc |-> "",
              val |-> Value(val, col_id,
                        ResolveUnit(col_id, Loc(cols, cells, col_id \o " UNIT")),
                        StrOfMethod(Loc(cols, cells, col_id \o " METH")))]
      ELSE IF EndsWith(col_id, "AGE") THEN age(Float(val))
      ELSE [skip |-> FALSE, exc |-> "", val |-> val]

\* The loop of lines 36-59 from column k on: [exc, data]
RECURSIVE ResolveFrom(_, _, _, _)
ResolveFrom(cols, cells, k, data) ==
  LET next(c) ==
        IF c.skip THEN ResolveFrom(cols, cells, k + 1, data)
        ELSE IF c.exc # "" THEN [exc |-> c.exc, data |-> data]
        ELSE ResolveFrom(cols, cells, k + 1, DataSet(data, cols[k], c.val))
  IN  IF k > Len(cols) THEN [exc |-> "", data |-> data]
      ELSE next(ResolveColumn(cols, cells, cols[k], cells[k]))

Resolve(cols, cells) == ResolveFrom(cols, cells, 1, <<>>)

(***************************************************************************)
(* post_process_ages.  A Decimal difference of two doubles is held exactly *)
(* as [dec, err]: dec * 10^-6 + err / (10^6 * 2^K), K the common exponent  *)
(* of the three ages (the 28 digits of the Decimal context keep apart any  *)
(* two such values that differ).                                           *)
(***************************************************************************)
\* Value.rounded(5): the decimal, in 10^-6, whose double round() returns
rounded(v) == Round5(v.value.n)

DecSub(a, b, K) == [dec |-> a - b, err |-> ErrAt(a, K) - ErrAt(b, K)]

\* Decimal(round((d1 + d2) / 2, 5)) in units of 10^-5: the halves of an odd
\* count of 10^-5 go the way the doubles' errors point, and to the even
\* neighbour when there is no error.
HalfSumRounded(d1, d2) ==
  LET half(N, e) ==
        IF N % 2 = 0 THEN N \div 2
        ELSE IF e > 0 THEN (N + 1) \div 2
        ELSE IF e < 0 THEN (N - 1) \div 2
        ELSE IF ((N - 1) \div 2) % 2 = 0 THEN (N - 1) \div 2
        ELSE (N + 1) \div 2
  IN  half((d1.dec + d2.dec) \div 10, d1.err + d2.err)

\* metric of lines 190-192
RangeMetric(d1, d2) ==
  IF d1 = d2 THEN "symmetric range" ELSE "asymmetric range"

\* data["AGE"].error, data["AGE"].error_metric = ...
SetAgeError(data, error, metric) ==
  [k \in 1..Len(data) |->
     IF data[k].key = "AGE"
       THEN [data[k] EXCEPT !.val.error = [t |-> "dec", n |-> error, s |-> ""],
                            !.val.error_metric = Str(metric)]
       ELSE data[k]]

\* post_process_ages(data): [exc, data].  round() of a text raises TypeError.
post_process_ages(data) ==
  LET set(d1, d2) ==
        [exc |-> "",
         data |-> SetAgeError(data, HalfSumRounded(d1, d2), RangeMetric(d1, d2))]
      diffs(a, lo, hi, K) == set(DecSub(a, lo, K), DecSub(hi, a, K))
      ages(a, lo, hi) == diffs(a, lo, hi, CommonExp(a, lo, hi))
      go(age, min_age, max_age) ==
        IF IsNull(age) \/ IsNull(min_age) \/ IsNull(max_age)
          THEN [exc |-> "", data |-> data]
        ELSE IF \E x \in {age, min_age, max_age} : x.value.t # "num"
          THEN [exc |-> "TypeError", data |-> data]
        ELSE ages(rounded(age), rounded(min_age), rounded(max_age))
  IN  go(DataGet(data, "AGE"), DataGet(data, "MIN AGE"), DataGet(data, "MAX AGE"))

(***************************************************************************)
(* import_sample: the sample document.                                     *)
(***************************************************************************)
\* re.search(r", (\d{4})$", ref) is not None
RefMatches(ref) ==
  LET at(e) ==
        /\ e >= 6
        /\ Char(ref, e - 5) = ","
        /\ Char(ref, e - 4) = " "
        /\ \A k \in (e - 3)..e : IsDigit(Char(ref, k))
  IN  at(DollarEnd(ref))

\* RefAuthors when line 71 does not strip
RefAuthorsUnstripped(ref) == SubSeq(ref, 1, DollarEnd(ref) - 6)

\* ref[: year.start()].strip()
RefAuthors(ref) == Strip(SubSeq(ref, 1, DollarEnd(ref) - 6))

\* int(year.group(1))
RefYear(ref) == IntOf(SubSeq(ref, DollarEnd(ref) - 3, DollarEnd(ref)))

\* cos(radians(lat)) ** 2 at the latitudes of the model, the equator and
\* the poles
CosSq(lat) ==
  CASE lat = 0 -> 1
    [] Abs(lat) = 90 * Micro -> 0

\* meters_per_degree(lat), in millimetres:
\* 111132.92 - 559.82 * cos^2 + 1.175 * cos^4
meters_per_degree(lat) ==
  111132920 - 559820 * CosSq(lat) + 1175 * CosSq(lat) * CosSq(lat)

\* build_material(data)
build_material(data) ==
  LET build(rock_name, material) ==
        IF IsNull(rock_name) THEN material
        ELSE IF IsNull(material) THEN rock_name
        ELSE [id |-> rock_name, member_of |-> material]
  IN  build(DataGet(data, "ROCK NAME"), DataGet(data, "MATERIAL"))

AttributeColumns == <<"MATERIAL", "TYPE", "COMPOSITION", "ROCK NAME", "SOURCE">>

\* build_attributes(data)
RECURSIVE AttributesFrom(_, _)
AttributesFrom(data, k) ==
  IF k > Len(AttributeColumns) THEN <<>>
  ELSE IF IsNull(DataGet(data, AttributeColumns[k]))
    THEN AttributesFrom(data, k + 1)
  ELSE <<[parameter |-> AttributeColumns[k],
          value |-> DataGet(data, AttributeColumns[k])]>>
         \o AttributesFrom(data, k + 1)

build_attributes(data) == AttributesFrom(data, 1)

\* Value.to_datum
to_datum(v) ==
  [value |-> v.value, error |-> v.error,
   type |-> [parameter |-> v.parameter, unit |-> v.unit, method |-> v.method,
             error_metric |-> v.error_metric]]

RECURSIVE DatumList(_)
DatumList(data) ==
  IF data = <<>> THEN <<>>
  ELSE IF IsValue(Head(data).val)
    THEN <<to_datum(Head(data).val)>> \o DatumList(Tail(data))
  ELSE DatumList(Tail(data))

\* build_sessions(data)
build_sessions(data) ==
  <<[analysis |-> <<[datum |-> DatumList(data)]>>,
     date |-> "1900-01-01T00:00:00",
     name |-> "All data"]>>

\* bool(x) of data.get(...): None, the number 0 and the empty text are false
Truthy(v) ==
  IF IsValue(v) THEN TRUE
  ELSE IF v.t = "null" THEN FALSE
  ELSE IF v.t = "num" THEN v.n # 0
  ELSE v.s # ""

\* The exception of float(data[key]), "" when there is none
FloatExc(data, key) ==
  LET of(v) ==
        IF IsValue(v) THEN "TypeError"
        ELSE IF ~Float(v).ok THEN "ValueError"
        ELSE ""
  IN  IF ~HasKey(data, key) THEN "KeyError" ELSE of(DataGet(data, key))

\* Whether lines 94-95 add location_precision
HasPrecision(data) == Truthy(DataGet(data, "LOC PREC"))

\* meters_per_degree(latitude) * float(precision), in millimetres; the
\* precisions of the model are whole degrees
LocationPrecision(latitude, precision) ==
  meters_per_degree(latitude) * (precision \div Micro)

\* The dict of lines 75-92 and 97
SampleDict(data, ref, latitude) ==
  [name |-> DataGet(data, "SAMPLE ID"),
   location |->
     [type |-> "Point",
      coordinates |-> <<Float(DataGet(data, "LONGITUDE")).n, latitude>>],
   publication |-> <<[author |-> RefAuthors(ref), year |-> RefYear(ref)]>>,
   attribute |-> build_attributes(data),
   material |-> build_material(data),
   session |-> build_sessions(data)]

\* Lines 94-95 on the dict of lines 75-92
WithPrecision(sample, data, latitude) ==
  IF HasPrecision(data)
    THEN sample @@
           [location_precision |->
              LocationPrecision(latitude, Float(DataGet(data, "LOC PREC")).n)]
    ELSE sample

\* Lines 65-97: [exc, msg, sample], sample a sequence of no or one document
Assemble(data) ==
  LET fail(e, m) == [exc |-> e, msg |-> m, sample |-> <<>>]
      build(ref, latitude) ==
        [exc |-> "", msg |-> "",
         sample |-> <<WithPrecision(SampleDict(data, ref, latitude), data,
                                    latitude)>>]
      check(ref, latExc, lonExc, precExc) ==
        IF ~HasKey(data, "REFERENCE") THEN fail("KeyError", "REFERENCE")
        ELSE IF ref.t # "str" THEN fail("TypeError", "")
        ELSE IF ~RefMatches(ref.s)
          THEN fail("Exception", "Could not parse reference " \o ref.s)
        ELSE IF latExc # "" THEN fail(latExc, "LATITUDE")
        ELSE IF ~HasKey(data, "SAMPLE ID") THEN fail("KeyError", "SAMPLE ID")
        ELSE IF lonExc # "" THEN fail(lonExc, "LONGITUDE")
        ELSE IF HasPrecision(data) /\ precExc # "" THEN fail(precExc, "LOC PREC")
        ELSE build(ref.s, Float(DataGet(data, "LATITUDE")).n)
  IN  check(DataGet(data, "REFERENCE"), FloatExc(data, "LATITUDE"),
            FloatExc(data, "LONGITUDE"), FloatExc(data, "LOC PREC"))

\* TryLoad when lines 105-108 have no except clause
TryLoadUncaught(resp) ==
  IF resp = "ok" THEN [exc |-> "", stored |-> TRUE]
  ELSE [exc |-> resp, stored |-> FALSE]

\* Lines 104-108: what the call of load_data leaves, resp being what
\* load_data does: [exc, stored]
TryLoad(resp) ==
  IF resp = "ok" THEN [exc |-> "", stored |-> TRUE]
  ELSE IF resp = "ValidationError" THEN [exc |-> "", stored |-> FALSE]
  ELSE [exc |-> resp, stored |-> FALSE]

\* import_sample(row): what the call leaves.  exc and msg are the exception
\* that leaves the call ("" when none does), stage the part of the function
\* it ended in ("resolve", "ages", "assemble", "load"), data the mapping the
\* resolver built, sample the document (a sequence of none or one),
\* load_called whether load_data was called, resp what load_data did, stored
\* whether the document is in the database.
import_sample(cols, cells, resp) ==
  LET stop(st, e, m, d) ==
        [exc |-> e, msg |-> m, stage |-> st, data |-> d, sample |-> <<>>,
         load_called |-> FALSE, resp |-> "", stored |-> FALSE]
      load(data, a, l) ==
        IF a.exc # "" THEN stop("assemble", a.exc, a.msg, data)
        ELSE [exc |-> l.exc, msg |-> "", stage |-> "load", data |-> data,
              sample |-> a.sample, load_called |-> TRUE, resp |-> resp,
              stored |-> l.stored]
      assemble(p) ==
        IF p.exc # "" THEN stop("ages", p.exc, "", p.data)
        ELSE load(p.data, Assemble(p.data), TryLoad(resp))
      ages(r) ==
        IF r.exc # "" THEN stop("resolve", r.exc, "", r.data)
        ELSE assemble(post_process_ages(r.data))
  IN  ages(Resolve(cols, cells))

(***************************************************************************)
(* import_earthchem: the loops over the files, the chunks of a file and    *)
(* the rows of a chunk.  The state is the files and the chunks still to    *)
(* read, the chunk as read (raw) and as combined (df), the row to import   *)
(* next (i), the documents load_data stored (db), the calls of             *)
(* import_sample so far (outcomes: the row given, its place, and what the  *)
(* call left), and where the task is (pc: "start", "files", "chunks",      *)
(* "rows", "done", "raised").                                              *)
(***************************************************************************)
EmptyFrame == [columns |-> <<>>, rows |-> <<>>]

\* What load_data may do with a document
LoadResponses == {"ok", "ValidationError", "DatabaseError"}

\* Whether the name sparrow of line 20 resolves.  The imports of the module
\* (lines 1-12) do not bind it, so it resolves only where the host that
\* loads the plugin has bound it; where it does not, line 20 raises
\* NameError.
SparrowBound == {TRUE, FALSE}

Start(fs) ==
  /\ files = fs
  /\ chunks = <<>>
  /\ raw = EmptyFrame
  /\ df = EmptyFrame
  /\ i = 1
  /\ pc = "start"
  /\ db = <<>>
  /\ outcomes = <<>>

\* df.apply has gone through the rows of a chunk
AtRowsEnd == pc = "rows" /\ i > Len(df.rows)

\* The loop over the chunks of a file is at its head
AtChunkLoop == pc = "chunks" \/ AtRowsEnd

\* The loop over the files is at its head
AtFileLoop == pc = "files" \/ (AtChunkLoop /\ chunks = <<>>)

\* Lines 20-21: the data directory and its files
Setup ==
  /\ pc = "start"
  /\ \E bound \in SparrowBound : pc' = IF bound THEN "files" ELSE "raised"
  /\ UNCHANGED <<files, chunks, raw, df, i, db, outcomes>>

\* Lines 22-24: the next file is opened
OpenFile ==
  /\ AtFileLoop
  /\ files # <<>>
  /\ chunks' = Head(files)
  /\ files' = Tail(files)
  /\ pc' = "chunks"
  /\ UNCHANGED <<raw, df, i, db, outcomes>>

\* Lines 25-26: the next chunk is read and its columns combined
ReadChunk ==
  /\ AtChunkLoop
  /\ chunks # <<>>
  /\ raw' = Head(chunks)
  /\ df' = combine_repeated_columns(Head(chunks))
  /\ chunks' = Tail(chunks)
  /\ i' = 1
  /\ pc' = "rows"
  /\ UNCHANGED <<files, db, outcomes>>

\* Line 28: import_sample on row i of the chunk; an exception that leaves
\* import_sample ends the task
ImportRow ==
  /\ pc = "rows"
  /\ i <= Len(df.rows)
  /\ \E resp \in LoadResponses :
       \E res \in {import_sample(df.columns, df.rows[i], resp)} :
         /\ outcomes' =
              Append(outcomes,
                     [row |-> i, of |-> Len(df.rows),
                      left |-> Len(chunks) + Len(files),
                      cols |-> df.columns, cells |-> df.rows[i], res |-> res])
         /\ db' = IF res.stored THEN db \o res.sample ELSE db
         /\ pc' = IF res.exc # "" THEN "raised" ELSE "rows"
         /\ i' = IF res.exc # "" THEN i ELSE i + 1
  /\ UNCHANGED <<files, chunks, raw, df>>

\* The loops of lines 22-28 end
Finish ==
  /\ AtFileLoop
  /\ files = <<>>
  /\ pc' = "done"
  /\ UNCHANGED <<files, chunks, raw, df, i, db, outcomes>>

Next == Setup \/ OpenFile \/ ReadChunk \/ ImportRow \/ Finish

(***************************************************************************)
(* The files the task is run on, each a sequence of chunks.  Every chunk   *)
(* has the columns SAMPLE ID, REFERENCE, LONGITUDE and LATITUDE first;     *)
(* pandas has made the names of a header distinct.                         *)
(***************************************************************************)
RequiredColumns == <<"SAMPLE ID", "REFERENCE", "LONGITUDE", "LATITUDE">>

RequiredCells == <<Str("S1"), Str("Smith J, 1998"), Num((-110) * Micro), Num(0)>>

\* All sequences over S of length n, and of length 1..n
RECURSIVE SeqsOfLen(_, _)
SeqsOfLen(S, n) ==
  IF n = 0 THEN {<<>>}
  ELSE {Append(q, x) : q \in SeqsOfLen(S, n - 1), x \in S}

SeqsUpTo(S, n) == UNION {SeqsOfLen(S, k) : k \in 1..n}

Distinct(q) == \A a, b \in 1..Len(q) : a # b => q[a] # q[b]

\* One file of one chunk of one row
OneChunk(columns, cells) ==
  << <<[columns |-> columns, rows |-> <<cells>>]>> >>

\* -- import_earthchem as a whole: a chunk of 1..MaxRows rows, alone or
\* followed by a chunk of one row in the same file or in a second file, a
\* row being sound or wrong in one of four ways
SampleColumns == RequiredColumns \o <<"AGE", "AGE.1">>

SampleRows ==
  { RequiredCells \o <<Num(10 * Micro), Null>>,
    <<Str("S2"), Str("no year here"), Num(0), Num(0), Null, Num(Micro)>>,
    <<Null, Str("Doe A, 2001"), Num(0), Num(0), Null, Null>>,
    <<Str("S4"), Str("Doe A, 2001"), Num(0), Str("north"), Null, Null>>,
    <<Str("S5"), Str("Doe A, 2001"), Num(0), Num(0), Str("n.d."), Null>> }

ChunksOf(n) ==
  {[columns |-> SampleColumns, rows |-> rs] : rs \in SeqsUpTo(SampleRows, n)}

Init ==
  \E c \in ChunksOf(MaxRows) :
    \/ Start(<< <<c>> >>)
    \/ \E d \in ChunksOf(1) : Start(<< <<c, d>> >>) \/ Start(<< <<c>>, <<d>> >>)

Spec == Init /\ [][Next]_vars

\* -- headers with repeated columns: up to MaxCols columns whose names are
\* AGE or SIO2 with up to MaxSuffix ".digits" suffixes and perhaps a
\* trailing blank; the cell of column k is null or the number k
RECURSIVE Suffixed(_, _)
Suffixed(base, depth) ==
  IF depth = 0 THEN {base}
  ELSE Suffixed(base, depth - 1)
         \cup {b \o x : b \in Suffixed(base, depth - 1), x \in {".1", ".2"}}

ColumnPool ==
  LET ages == Suffixed("AGE", MaxSuffix)
  IN  ages \cup {a \o " " : a \in ages} \cup {"SIO2", "SIO2.1"}

InitColumns ==
  \E extra \in SeqsUpTo(ColumnPool, MaxCols) :
    /\ Distinct(extra)
    /\ \E nulls \in SUBSET (1..Len(extra)) :
         Start(OneChunk(RequiredColumns \o extra,
                        RequiredCells \o
                          [k \in 1..Len(extra) |->
                             IF k \in nulls THEN Null ELSE Num(k * Micro)]))

SpecColumns == InitColumns /\ [][Next]_vars

\* -- references: every text of up to MaxRefLen characters, with or without
\* a line break after it, beside an empty AGE cell, and an unsound and a
\* sound reference beside an AGE cell that is not a number
RefAlphabet == {"S", ",", " ", "1"}

\* The text of a sequence of characters
RECURSIVE Concat(_)
Concat(q) == IF q = <<>> THEN "" ELSE Head(q) \o Concat(Tail(q))

ReferenceRow(ref, age) ==
  OneChunk(RequiredColumns \o <<"AGE">>,
           <<Str("S1"), Str(ref), Num(0), Num(0), age>>)

InitReference ==
  \/ \E n \in 1..MaxRefLen :
       \E q \in [1..n -> RefAlphabet], end \in {"", "\n"} :
         Start(ReferenceRow(Concat(q) \o end, Null))
  \/ \E ref \in {"S, 111", "S, 1111"} : Start(ReferenceRow(ref, Str("n.d.")))

SpecReference == InitReference /\ [][Next]_vars

\* -- ages: AGE, MIN AGE and MAX AGE without companions, CLOSURE AGE with a
\* UNIT column alone and PLATEAU AGE with both companions
AgeCells ==
  {Null, Str("n.d."), Str("-10")} \cup
  {Num(n) : n \in {0, 200000, 300000, 400000, 100005, 100010,
                   -200000, -300000, -400000,
                   10 * Micro, 20 * Micro, 30 * Micro}}

InitAges ==
  \E age, min_age, max_age \in AgeCells, other \in {Null, Num((-5) * Micro)} :
    Start(OneChunk(
      RequiredColumns \o <<"AGE", "MIN AGE", "MAX AGE",
                           "CLOSURE AGE", "CLOSURE AGE UNIT",
                           "PLATEAU AGE", "PLATEAU AGE UNIT", "PLATEAU AGE METH">>,
      RequiredCells \o <<age, min_age, max_age, other, Str("Ma"),
                         other, Str("Ma"), Str("AR-AR")>>))

SpecAges == InitAges /\ [][Next]_vars

\* -- measured values: columns with both, one or none of their companions
ValueCells == {Null, Num(50 * Micro), Str("<0.1")}

UnitCells == {Null, Str("WT%"), Str("ratio")}

MethodCells == {Null, Str("ICPMS")}

InitValues ==
  \/ \E v1, v2 \in ValueCells, u1, u2 \in UnitCells, m1, m2 \in MethodCells :
       Start(OneChunk(
         RequiredColumns \o <<"SIO2", "SIO2 UNIT", "SIO2 METH", "ND143_ND144",
                              "ND143_ND144 UNIT", "ND143_ND144 METH">>,
         RequiredCells \o <<v1, u1, m1, v2, u2, m2>>))
  \/ \E v1, v2, v3 \in ValueCells, u1, u3 \in UnitCells, m2, m3 \in MethodCells :
       Start(OneChunk(
         RequiredColumns \o <<"SIO2", "SIO2 UNIT", "SR_ND", "SR_ND METH",
                              "AGE", "AGE UNIT", "AGE METH">>,
         RequiredCells \o <<v1, u1, v2, m2, v3, u3, m3>>))

SpecValues == InitValues /\ [][Next]_vars

\* -- locations: a latitude at the equator or a pole, a precision of
\* 0..MaxPrec degrees, as a number or as text, and the material columns
PrecisionCells ==
  {Null, Str("1"), Str("0"), Str("approx")}
    \cup {Num(k * Micro) : k \in 0..MaxPrec}

InitLocation ==
  \E lat \in {0, 90 * Micro, (-90) * Micro}, prec \in PrecisionCells,
     material, rock \in {Null, Str("IGNEOUS")} :
    Start(OneChunk(
      RequiredColumns \o <<"LOC PREC", "MATERIAL", "ROCK NAME">>,
      <<Str("S1"), Str("Smith J, 1998"), Num(0), Num(lat), prec,
        material, rock>>))

SpecLocation == InitLocation /\ [][Next]_vars

(***************************************************************************)
(* Properties.  They are stated over the calls of import_sample made so    *)
(* far (outcomes) and over the chunk as read and as combined (raw, df).    *)
(***************************************************************************)
Calls == 1..Len(outcomes)

\* The cell the row of a call has in a column, null when there is no such
\* column
CellOf(o, name) ==
  IF InIndex(o.cols, name) THEN Loc(o.cols, o.cells, name) ELSE Null

\* The call got through the resolver; through post_process_ages as well
Resolved(o) == o.res.stage # "resolve"

AgesDone(o) == o.res.stage \notin {"resolve", "ages"}

\* The chunks not yet read
RECURSIVE CountChunks(_)
CountChunks(fs) ==
  IF fs = <<>> THEN 0 ELSE Len(Head(fs)) + CountChunks(Tail(fs))

ChunksLeft == Len(chunks) + CountChunks(files)

\* load_data failed with ValidationError in call o
Rejected(o) == o.res.load_called /\ o.res.resp = "ValidationError"

\* Call n is of the row after that of call o: the next row of the chunk, or
\* the first row of the next chunk when o was of the last row of its chunk
NextRow(o, n) ==
  \/ n.left = o.left /\ n.row = o.row + 1
  \/ n.left = o.left - 1 /\ o.row = o.of /\ n.row = 1

\* C1: a ValidationError of load_data does not leave import_sample, the row
\* is not stored, and the call that follows is of the next row; any other
\* failure leaves import_sample and ends the task, so that a call ends
\* without an exception only when load_data stored the row or rejected it
\* with ValidationError; no row is passed over, and the task is done only
\* after the last row of the last chunk.
C1_OnlyValidationErrorRecovered ==
  /\ \A k \in Calls :
       /\ Rejected(outcomes[k]) =>
            outcomes[k].res.exc = "" /\ ~outcomes[k].res.stored
       /\ outcomes[k].res.exc = "" <=>
            /\ outcomes[k].res.load_called
            /\ outcomes[k].res.resp \in {"ok", "ValidationError"}
       /\ outcomes[k].res.stored <=>
            outcomes[k].res.load_called /\ outcomes[k].res.resp = "ok"
       /\ outcomes[k].res.exc # "" => k = Len(outcomes) /\ pc = "raised"
       /\ k < Len(outcomes) => NextRow(outcomes[k], outcomes[k + 1])
       /\ (k = Len(outcomes) /\ outcomes[k].res.exc = "") =>
            \/ /\ pc = "rows" /\ i = outcomes[k].row + 1
               /\ outcomes[k].left = ChunksLeft
               /\ outcomes[k].cells = df.rows[outcomes[k].row]
            \/ /\ pc = "rows" /\ i = 1
               /\ outcomes[k].left = ChunksLeft + 1
               /\ outcomes[k].row = outcomes[k].of
            \/ /\ pc \in {"chunks", "done"}
               /\ outcomes[k].left = ChunksLeft
               /\ outcomes[k].row = outcomes[k].of
  /\ outcomes # <<>> => outcomes[1].row = 1
  /\ (pc = "rows" /\ i = 1) => \A k \in Calls : outcomes[k].left > ChunksLeft
  /\ pc = "done" => ChunksLeft = 0 /\ i > Len(df.rows)
  /\ Len(db) = Cardinality({k \in Calls : outcomes[k].res.stored})

\* A row that load_data rejected with ValidationError, followed by the call
\* for the first row of the next chunk
C1_Witness ==
  \E k \in Calls :
    /\ k < Len(outcomes)
    /\ Rejected(outcomes[k])
    /\ outcomes[k + 1].left < outcomes[k].left
    /\ outcomes[k + 1].res.stored

\* A text ends with a comma, a space and four digits
EndsInYear(s) ==
  /\ Len(s) >= 6
  /\ SubSeq(s, Len(s) - 5, Len(s) - 4) = ", "
  /\ \A k \in (Len(s) - 3)..Len(s) : IsDigit(Char(s, k))

\* Text t occurs in text s
HasText(s, t) ==
  \E a \in 1..(Len(s) - Len(t) + 1) : SubSeq(s, a, a + Len(t) - 1) = t

\* The publication of the document of a call
Publication(o) == o.res.sample[1].publication[1]

\* C2 as claimed: every row whose REFERENCE does not end with a comma, a
\* space and four digits fails with a parsing error that contains the
\* reference, without a document and without a call of load_data; for a
\* row whose REFERENCE does, the author is the text before the suffix and
\* the year the number of the four digits.
C2_ReferenceParsed ==
  \A k \in Calls :
    CellOf(outcomes[k], "REFERENCE").t = "str" =>
      IF EndsInYear(CellOf(outcomes[k], "REFERENCE").s)
        THEN outcomes[k].res.sample # <<>> =>
               /\ Publication(outcomes[k]).author =
                    SubSeq(CellOf(outcomes[k], "REFERENCE").s, 1,
                           Len(CellOf(outcomes[k], "REFERENCE").s) - 6)
               /\ Publication(outcomes[k]).year =
                    IntOf(SubSeq(CellOf(outcomes[k], "REFERENCE").s,
                                 Len(CellOf(outcomes[k], "REFERENCE").s) - 3,
                                 Len(CellOf(outcomes[k], "REFERENCE").s)))
        ELSE /\ outcomes[k].res.exc = "Exception"
             /\ HasText(outcomes[k].res.msg, CellOf(outcomes[k], "REFERENCE").s)
             /\ outcomes[k].res.sample = <<>>
             /\ ~outcomes[k].res.load_called

\* The end of a text, one final line break apart
TextEnd(s) ==
  IF Len(s) > 0 /\ Char(s, Len(s)) = "\n" THEN Len(s) - 1 ELSE Len(s)

\* C2 as amended, for the REFERENCE text ref of a row, the column being
\* without UNIT and METH companions: when ref does not end, one final line
\* break apart, with a comma, a space and four digits, no
\* document is built and load_data is not called, and the call fails with
\* the error "Could not parse reference " followed by ref unless the
\* resolver or post_process_ages failed first; when it does and a document
\* is built, the author is the text before the suffix without the
\* whitespace around it and the year the number of the four digits.
C2_ReferenceParsedAtEnd ==
  \A k \in Calls :
    LET parsed(o, ref, e) ==
          IF EndsInYear(SubSeq(ref, 1, e))
            THEN o.res.sample # <<>> =>
                   /\ Publication(o).author = Strip(SubSeq(ref, 1, e - 6))
                   /\ Publication(o).year = IntOf(SubSeq(ref, e - 3, e))
            ELSE /\ o.res.sample = <<>>
                 /\ ~o.res.load_called
                 /\ o.res.exc # ""
                 /\ AgesDone(o) =>
                      /\ o.res.exc = "Exception"
                      /\ o.res.msg = "Could not parse reference " \o ref
        check(o, cell) ==
          ( /\ cell.t = "str"
            /\ ~( /\ InIndex(o.cols, "REFERENCE UNIT")
                  /\ InIndex(o.cols, "REFERENCE METH") ) )
            => parsed(o, cell.s, TextEnd(cell.s))
    IN  check(outcomes[k], CellOf(outcomes[k], "REFERENCE"))

\* A reference with a line break after ", dddd", whose document has the
\* author and the year
C2_Witness ==
  \E k \in Calls :
    /\ outcomes[k].res.sample # <<>>
    /\ CellOf(outcomes[k], "REFERENCE").s = "S, 1111\n"
    /\ Publication(outcomes[k]).author = "S"
    /\ Publication(outcomes[k]).year = 1111

\* A chunk has been read and its columns combined
Combined == raw # EmptyFrame

ColumnIdx(f, name) == CHOOSE k \in 1..Len(f.columns) : f.columns[k] = name

\* The columns of the chunk as read that repeat column c: their names are
\* that of c with a ".digits" suffix
Duplicates(c) ==
  {d \in 1..Len(raw.columns) :
     /\ raw.columns[d] # raw.columns[c]
     /\ StripSuffix(raw.columns[d]) = raw.columns[c]}

\* The first non-null cell of a row among the columns idxs, null when there
\* is none
FirstNonNull(cells, idxs) ==
  LET filled == {j \in idxs : ~IsNull(cells[j])}
  IN  IF filled = {} THEN Null
      ELSE cells[CHOOSE j \in filled : \A h \in filled : j <= h]

\* C3: where the chunk as read has a column under a canonical name and
\* columns repeating it, the combined chunk has the canonical column, has
\* none of the repeats, and holds in it, for every row, the first non-null
\* value among the canonical column and its repeats (that of the canonical
\* column when it is not null, else that of the earliest repeat).
C3_FirstNonNullKept ==
  Combined =>
    \A c \in 1..Len(raw.columns) :
      (CleanName(raw.columns[c]) = raw.columns[c] /\ Duplicates(c) # {}) =>
        /\ raw.columns[c] \in Names(df)
        /\ \A d \in Duplicates(c) : raw.columns[d] \notin Names(df)
        /\ \A r \in 1..Len(raw.rows) :
             df.rows[r][ColumnIdx(df, raw.columns[c])] =
               IF ~IsNull(raw.rows[r][c]) THEN raw.rows[r][c]
               ELSE FirstNonNull(raw.rows[r], Duplicates(c))

\* C4: combining the columns of a combined chunk again changes nothing:
\* the same names in the same order and the same cells.
C4_Idempotent ==
  Combined => combine_repeated_columns(df) = df

\* C5: no two columns of a combined chunk have the same name once a
\* trailing ".digits" suffix and the whitespace around are stripped from
\* each.
C5_OneColumnPerCanonicalName ==
  Combined =>
    \A a, b \in 1..Len(df.columns) :
      a # b => CleanName(df.columns[a]) # CleanName(df.columns[b])

\* The document of a call
Document(o) == o.res.sample[1]

\* C6: the document of a row has location_precision, equal to
\* meters_per_degree(latitude) times the LOC PREC value, whenever the LOC
\* PREC cell is not null, the value 0 included, and has no such field only
\* when the cell is null.
C6_PrecisionWheneverPresent ==
  \A k \in Calls :
    outcomes[k].res.sample # <<>> =>
      IF IsNull(CellOf(outcomes[k], "LOC PREC"))
        THEN "location_precision" \notin DOMAIN Document(outcomes[k])
        ELSE /\ "location_precision" \in DOMAIN Document(outcomes[k])
             /\ Document(outcomes[k]).location_precision =
                  meters_per_degree(Float(CellOf(outcomes[k], "LATITUDE")).n)
                    * (Float(CellOf(outcomes[k], "LOC PREC")).n \div Micro)

\* The three ages of a call after post_process_ages
AgeOf(o) == DataGet(o.res.data, "AGE")

MinAgeOf(o) == DataGet(o.res.data, "MIN AGE")

MaxAgeOf(o) == DataGet(o.res.data, "MAX AGE")

\* C7: when AGE, MIN AGE and MAX AGE are all present, the error of AGE is
\* ((AGE - MIN AGE) + (MAX AGE - AGE)) / 2 on the values rounded to 5
\* decimals, itself rounded to 5 decimals (to either neighbour when it lies
\* half way), and error_metric is "symmetric range" if and only if the two
\* rounded differences are equal, else "asymmetric range"; when one of the
\* three is absent, error and error_metric stay unset.
C7_AgeError ==
  \A k \in Calls :
    LET set(age, d1, d2) ==
          /\ age.error.t = "dec"
          /\ Abs(20 * age.error.n - (d1 + d2)) <= 10
          /\ age.error_metric =
               Str(IF d1 = d2 THEN "symmetric range" ELSE "asymmetric range")
        ages(age, a, lo, hi) == set(age, a - lo, hi - a)
        check(age, lo, hi) ==
          IF IsNull(age) THEN TRUE
          ELSE IF IsNull(lo) \/ IsNull(hi)
            THEN age.error = Null /\ age.error_metric = Null
          ELSE ages(age, rounded(age), rounded(lo), rounded(hi))
    IN  AgesDone(outcomes[k]) =>
          check(AgeOf(outcomes[k]), MinAgeOf(outcomes[k]), MaxAgeOf(outcomes[k]))

\* Column c of the row of a call has both of its companion columns
HasCompanions(o, c) ==
  InIndex(o.cols, o.cols[c] \o " UNIT") /\ InIndex(o.cols, o.cols[c] \o " METH")

\* C8: every column whose name ends in AGE, whose cell is a number v and
\* which lacks one of its UNIT and METH companions resolves to a Value of
\* that parameter with method UNKNOWN, with value -v and unit year when
\* v < 0, and with value v and unit Ma when v >= 0.
C8_AgeSign ==
  \A k \in Calls :
    Resolved(outcomes[k]) =>
      \A c \in 1..Len(outcomes[k].cols) :
        LET sound(name, v, val) ==
              /\ IsValue(val)
              /\ val.parameter = name
              /\ val.method = "UNKNOWN"
              /\ v < 0 => val.value = Num(-v) /\ val.unit = "year"
              /\ v >= 0 => val.value = Num(v) /\ val.unit = "Ma"
            check(o, name, cell) ==
              ( /\ EndsWith(name, "AGE")
                /\ ~IsNull(cell)
                /\ ~HasCompanions(o, c)
                /\ Float(cell).ok )
                => sound(name, Float(cell).n, DataGet(o.res.data, name))
        IN  check(outcomes[k], outcomes[k].cols[c], outcomes[k].cells[c])

\* An age of -10 resolved to 10 year and, beside it, one of 10 resolved to
\* 10 Ma, and an age column with a UNIT column alone resolved in years
C8_Witness ==
  \E k \in Calls :
    /\ Resolved(outcomes[k])
    /\ CellOf(outcomes[k], "AGE") = Str("-10")
    /\ AgeOf(outcomes[k]).value = Num(10 * Micro)
    /\ AgeOf(outcomes[k]).unit = "year"
    /\ CellOf(outcomes[k], "MAX AGE") = Num(10 * Micro)
    /\ MaxAgeOf(outcomes[k]).value = Num(10 * Micro)
    /\ MaxAgeOf(outcomes[k]).unit = "Ma"
    /\ CellOf(outcomes[k], "CLOSURE AGE") = Num((-5) * Micro)
    /\ DataGet(outcomes[k].res.data, "CLOSURE AGE").value = Num(5 * Micro)
    /\ DataGet(outcomes[k].res.data, "CLOSURE AGE").unit = "year"

\* C9: every non-null column that is not itself a UNIT or METH column and
\* has both companions resolves to a Value whose parameter is the name of
\* the column, whose value is the cell, whose method is the text of the
\* METH cell and whose unit is the text of the UNIT cell when that is not
\* null and, when it is null, is "ratio" exactly when the name has an
\* underscore; unit and method are both texts that are not empty.
C9_Companions ==
  \A k \in Calls :
    Resolved(outcomes[k]) =>
      \A c \in 1..Len(outcomes[k].cols) :
        LET sound(name, cell, unit, meth, val) ==
              /\ IsValue(val)
              /\ val.parameter = name
              /\ val.value = cell
              /\ val.method = (IF IsNull(meth) THEN "nan" ELSE meth.s)
              /\ ~IsNull(unit) => val.unit = unit.s
              /\ IsNull(unit) => (val.unit = "ratio" <=> Contains(name, "_"))
              /\ val.unit # "" /\ val.method # ""
            check(o, name, cell) ==
              ( /\ ~IsNull(cell)
                /\ ~EndsWith(name, " UNIT")
                /\ ~EndsWith(name, " METH")
                /\ HasCompanions(o, c) )
                => sound(name, cell, CellOf(o, name \o " UNIT"),
                         CellOf(o, name \o " METH"),
                         DataGet(o.res.data, name))
        IN  check(outcomes[k], outcomes[k].cols[c], outcomes[k].cells[c])

\* A column with an underscore in its name and a null UNIT cell resolved to
\* the unit ratio, beside one without an underscore and a null UNIT cell
C9_Witness ==
  \E k \in Calls :
    /\ Resolved(outcomes[k])
    /\ InIndex(outcomes[k].cols, "ND143_ND144")
    /\ ~IsNull(CellOf(outcomes[k], "ND143_ND144"))
    /\ IsNull(CellOf(outcomes[k], "ND143_ND144 UNIT"))
    /\ DataGet(outcomes[k].res.data, "ND143_ND144").unit = "ratio"
    /\ ~IsNull(CellOf(outcomes[k], "SIO2"))
    /\ IsNull(CellOf(outcomes[k], "SIO2 UNIT"))
    /\ DataGet(outcomes[k].res.data, "SIO2").unit # "ratio"

\* C10: when the AGE, MIN AGE and MAX AGE cells of a row are numbers with
\* MIN AGE <= AGE <= MAX AGE and none of the three columns has a UNIT or a
\* METH companion, the error post_process_ages sets on AGE is not negative,
\* also when the three cells are negative.
C10_ErrorNonNegative ==
  \A k \in Calls :
    LET plain(o) ==
          \A n \in {"AGE", "MIN AGE", "MAX AGE"} :
            /\ CellOf(o, n).t = "num"
            /\ ~InIndex(o.cols, n \o " UNIT")
            /\ ~InIndex(o.cols, n \o " METH")
        ordered(age, lo, hi) == lo.n <= age.n /\ age.n <= hi.n
        check(o) ==
          ( /\ AgesDone(o)
            /\ plain(o)
            /\ ordered(CellOf(o, "AGE"), CellOf(o, "MIN AGE"),
                       CellOf(o, "MAX AGE")) )
            => AgeOf(o).error.t = "dec" /\ AgeOf(o).error.n >= 0
    IN  check(outcomes[k])

====
